---- MODULE Spec2Model ----
(***************************************************************************)
(* A model of fin_bot: the message store (storage package), the event      *)
(* handler registered in startWebSocketConnection (main package) and the   *)
(* state they share.                                                       *)
(*                                                                         *)
(* The SQL statements are modelled by what they do to the table: every     *)
(* statement is executed atomically by the engine, a Go function that      *)
(* issues two statements is two steps.                                     *)
(***************************************************************************)
EXTENDS Integers, Sequences, FiniteSets

\* ------------------------------------------------------------------ bounds
\* created_at values are 1..MaxTime
MaxTime == 3
\* created_at values of the concurrent callers are 1..MaxConcTime
MaxConcTime == 2
\* the concurrent callers insert at most MaxId rows in a run
MaxId == 2
\* keepCount of the concurrent DeleteOldMessages calls is 0..MaxConcKeep
MaxConcKeep == 1
\* the sequential caller inserts at most MaxSeqId rows in a run
MaxSeqId == 3
\* keepCount and limit of the sequential caller go up to MaxKeep
MaxKeep == 2
\* time.Now() of the event handler is 1..MaxClock
MaxClock == 2
\* the platform reports further pages on fewer than MaxPages pages of a listing
MaxPages == 2

\* limit = 50 when the caller passes limit <= 0
DefaultLimit == 50

Times == 1..MaxTime

\* ------------------------------------------------------------- the table
\* A row of table messages (storage.go, initTables); a Message (part_000)
\* is the same record with id = 0 before it is stored.
NewMessage(chat, mid, stype, body, mtype, at) ==
    [id |-> 0, chat_id |-> chat, message_id |-> mid, sender_id |-> "",
     sender_type |-> stype, content |-> body, message_type |-> mtype,
     created_at |-> at]

\* rows WHERE message_id = ?
ByMessageID(rows, mid) == {r \in rows : r.message_id = mid}

\* rows WHERE chat_id = ?
ByChatID(rows, chat) == {r \in rows : r.chat_id = chat}

\* INSERT without the ON CONFLICT clause against a table without the UNIQUE
\* constraint: the row is always added.
ExecUpsertNoUnique(rows, seq, msg) ==
    [rows |-> rows \cup {[msg EXCEPT !.id = seq + 1]}, seq |-> seq + 1, err |-> FALSE]

\* INSERT without the ON CONFLICT clause: the UNIQUE constraint fails the
\* statement when the message_id is already there.
ExecUpsertPlainInsert(rows, seq, msg) ==
    IF ByMessageID(rows, msg.message_id) # {}
    THEN [rows |-> rows, seq |-> seq, err |-> TRUE]
    ELSE [rows |-> rows \cup {[msg EXCEPT !.id = seq + 1]}, seq |-> seq + 1, err |-> FALSE]

\* ON CONFLICT(message_id) DO NOTHING: the first writer wins.
ExecUpsertDoNothing(rows, seq, msg) ==
    IF ByMessageID(rows, msg.message_id) # {}
    THEN [rows |-> rows, seq |-> seq, err |-> FALSE]
    ELSE [rows |-> rows \cup {[msg EXCEPT !.id = seq + 1]}, seq |-> seq + 1, err |-> FALSE]

\* INSERT OR REPLACE: on a conflict the old row is deleted and the new one
\* inserted with every column of msg and a new id.
ExecUpsertReplace(rows, seq, msg) ==
    [rows |-> (rows \ ByMessageID(rows, msg.message_id)) \cup {[msg EXCEPT !.id = seq + 1]},
     seq |-> seq + 1, err |-> FALSE]

\* The statement of SaveMessage:
\*   INSERT INTO messages (...) VALUES (...)
\*   ON CONFLICT(message_id) DO UPDATE SET content = excluded.content,
\*                                         created_at = excluded.created_at
\* seq is the AUTOINCREMENT counter (the largest id ever handed out).
ExecUpsert(rows, seq, msg) ==
    IF ByMessageID(rows, msg.message_id) # {}
    THEN [rows |-> {IF r.message_id = msg.message_id
                    THEN [r EXCEPT !.content = msg.content,
                                   !.created_at = msg.created_at]
                    ELSE r : r \in rows},
          seq |-> seq, err |-> FALSE]
    ELSE [rows |-> rows \cup {[msg EXCEPT !.id = seq + 1]},
          seq |-> seq + 1, err |-> FALSE]

\* SaveMessage(msg), whole: ExecContext either fails (the store cannot be
\* reached, dbFails) and the error is returned, or executes the statement.
SaveMessage(rows, seq, msg, dbFails) ==
    IF dbFails
    THEN [rows |-> rows, seq |-> seq, err |-> TRUE]
    ELSE ExecUpsert(rows, seq, msg)

\* -------------------------------------------------------------- queries
Min(a, b) == IF a < b THEN a ELSE b

\* LIMIT ? of the engine: a negative limit is no limit
LimitOf(n, limit) == IF limit < 0 THEN n ELSE Min(n, limit)

\* ORDER BY created_at DESC: the rows that may come first among S. Rows with
\* equal created_at come in any order, the statement names no second sort key.
\* (Ascending: the same for ORDER BY created_at ASC.)
NewestAscending(S) == {r \in S : \A q \in S : q.created_at >= r.created_at}

Newest(S) == {r \in S : \A q \in S : q.created_at <= r.created_at}

\* ... ORDER BY created_at DESC LIMIT n over the rows S : the set of row
\* sequences the engine may answer with.
RECURSIVE OrderByLimit(_, _)
OrderByLimit(S, n) ==
    IF n = 0 \/ S = {}
    THEN {<<>>}
    ELSE UNION {{<<r>> \o t : t \in OrderByLimit(S \ {r}, n - 1)} : r \in Newest(S)}

\* SELECT ... FROM messages WHERE chat_id = ? ORDER BY created_at DESC LIMIT ?
QueryRecent(rows, chat, limit) ==
    OrderByLimit(ByChatID(rows, chat), LimitOf(Cardinality(ByChatID(rows, chat)), limit))

Reverse(s) == [i \in 1..Len(s) |-> s[Len(s) + 1 - i]]

\* DeleteOldMessages, first statement: the ids to keep (keepIDs)
SelectKeepIDs(rows, chat, keepCount) ==
    {{s[i].id : i \in 1..Len(s)} : s \in QueryRecent(rows, chat, keepCount)}

\* the DELETE statements without "chat_id = ?"
ExecDeleteOldAnyChat(rows, chat, keepIDs) ==
    IF keepIDs = {}
    THEN {}
    ELSE {r \in rows : r.id \in keepIDs}

\* DeleteOldMessages, second statement:
\*   len(keepIDs) = 0:  DELETE FROM messages WHERE chat_id = ?
\*   otherwise:         DELETE FROM messages WHERE chat_id = ? AND id NOT IN (keepIDs)
ExecDeleteOld(rows, chat, keepIDs) ==
    IF keepIDs = {}
    THEN {r \in rows : r.chat_id # chat}
    ELSE {r \in rows : ~(r.chat_id = chat /\ r.id \notin keepIDs)}

\* DeleteOldMessages run alone: every table it may leave
DeleteOldMessages(rows, chat, keepCount) ==
    {ExecDeleteOld(rows, chat, keepIDs) : keepIDs \in SelectKeepIDs(rows, chat, keepCount)}

\* GetMessagesByChatID, lines 110-115: created_at is scanned as text and parsed
\* with the layout "2006-01-02 15:04:05"; when the text does not match,
\* the message gets time.Now() instead.
ScanMessage(r, textOk, now) ==
    [r EXCEPT !.created_at = IF textOk THEN r.created_at ELSE now]

\* GetMessagesByChatID without lines 124-127 (the result is not reversed)
GetMessagesByChatIDNotReversed(rows, chat, limit, textOk, now) ==
    {[i \in 1..Len(s) |-> ScanMessage(s[i], textOk, now)] :
        s \in QueryRecent(rows, chat, IF limit <= 0 THEN DefaultLimit ELSE limit)}

\* GetMessagesByChatID: every slice it may return
GetMessagesByChatID(rows, chat, limit, textOk, now) ==
    {Reverse([i \in 1..Len(s) |-> ScanMessage(s[i], textOk, now)]) :
        s \in QueryRecent(rows, chat, IF limit <= 0 THEN DefaultLimit ELSE limit)}

\* ---------------------------------------------------------------- state
VARIABLES
    rows,      \* table messages
    autoinc,   \* its AUTOINCREMENT counter
    wpc,       \* SaveMessage call of each concurrent caller: "idle", "exec", "done"
    wmsg,      \*   its msg argument
    wexisted,  \*   what its existence check found (err == nil at line 31)
    werr,      \*   whether its last call returned an error
    tpc,       \* DeleteOldMessages call: "idle", "delete"
    tchat,     \*   its chatID argument
    tkeep,     \*   its keepIDs
    arrived,   \* history: ids of the rows written by SaveMessage since the
               \* pending DeleteOldMessages call ran its SELECT
    last,      \* history: the last call made by the sequential caller
    before,    \* history: the table before that call
    prev,      \* history: the call before it, and the row count before that
    recentChat,\* LarkService.recentChat
    clock,     \* time.Now()
    hpc,       \* the event handler: "idle", "running", "done"
    hev,       \*   the event it was called with
    hsave,     \*   what became of its SaveMessage: "skipped", "saved", "failed"
    calls,     \*   the calls it made on client.Im.Message
    hsend,     \*   how the last of them ended: "none", "ok", "rejected", "error"
    hret,      \*   how it ended: "none" (not yet), "nil", "panic"
    bpc,       \* SendMessageToAllChats call: "idle", "listing", "sending", "done"
    pageToken, \*   GetChatList: pageToken
    chatIDs,   \*   GetChatList: chatIDs
    pages,     \*   history: the responses of client.Im.Chat.List, in order
    sends,     \*   history: the SendTextMessage calls made, in order
    bres,      \*   what SendMessageToAllChats returned
    mu,        \* LarkService.mu: who holds it for writing, who for reading
    cpc,       \* each caller of UpdateRecentChat / GetRecentChat: where it is
    carg,      \*   the arguments of its UpdateRecentChat
    cgot,      \*   what its GetRecentChat read
    completed, \* history: the arguments of the last UpdateRecentChat that returned
    cancelled, \* main: cancel() has been called (ctx is done)
    exited     \* main has returned: the process is gone

vars == <<rows, autoinc, wpc, wmsg, wexisted, werr, tpc, tchat, tkeep, arrived,
          last, before, prev, recentChat, clock, hpc, hev, hsave, calls, hsend, hret,
          bpc, pageToken, chatIDs, pages, sends, bres, mu, cpc, carg, cgot,
          completed, cancelled, exited>>

storeVars == <<rows, autoinc>>
writerVars == <<wpc, wmsg, wexisted, werr>>
trimVars == <<tpc, tchat, tkeep, arrived>>
seqVars == <<last, before, prev>>
handlerVars == <<clock, hpc, hev, hsave, calls, hsend, hret>>
routerVars == <<recentChat, clock, hpc, hev, hsave, calls, hsend, hret>>
bcastVars == <<bpc, pageToken, chatIDs, pages, sends, bres>>
lockVars == <<mu, cpc, carg, cgot, completed>>
lifeVars == <<cancelled, exited>>
svcVars == <<bcastVars, lockVars, lifeVars>>

\* --------------------------------------------- the store, concurrent callers
Writers == {"w1", "w2"}
MsgIds == {"om_1", "om_2", "om_3"}
ConcMsgIds == {"om_1", "om_2"}
Chats == {"oc_a", "oc_b"}
Bodies == {"x", "y"}

NoMessage == NewMessage("", "", "", "", "", 0)

\* the messages a concurrent caller saves: all of one conversation, and each
\* caller with a body of its own, so that a row tells whose write it holds
BodyOf(w) == IF w = "w1" THEN "x" ELSE "y"

ConcMessages(w) ==
    {NewMessage("oc_a", m, "user", BodyOf(w), "text", t) :
        m \in ConcMsgIds, t \in 1..MaxConcTime}

InitStore == rows = {} /\ autoinc = 0

InitWriters ==
    /\ wpc = [w \in Writers |-> "idle"]
    /\ wmsg = [w \in Writers |-> NoMessage]
    /\ wexisted = [w \in Writers |-> FALSE]
    /\ werr = [w \in Writers |-> FALSE]

InitTrim == tpc = "idle" /\ tchat = "" /\ tkeep = {} /\ arrived = {}

NoCall == [op |-> "none", msg |-> NoMessage, chat |-> "", n |-> 0, out |-> <<>>, err |-> FALSE]
NoPrev == [op |-> "none", msg |-> NoMessage, count |-> 0]

InitSeq == last = NoCall /\ before = {} /\ prev = NoPrev

Nil == "<nil>"
NoEvent == [message_id |-> Nil, chat_id |-> Nil, message_type |-> Nil,
            chat_type |-> Nil, content |-> Nil]
NoChat == [ChatID |-> "", ChatType |-> ""]

\* NewLarkService leaves recentChat nil
InitRouter ==
    /\ recentChat = NoChat
    /\ clock = 1
    /\ hpc = "idle"
    /\ hev = NoEvent /\ hsave = "skipped" /\ calls = <<>> /\ hsend = "none"
    /\ hret = "none"

\* no SendMessageToAllChats call under way
NoResult == [err |-> "", total |-> 0, success |-> 0, failed |-> 0, results |-> <<>>]

InitBroadcast ==
    /\ bpc = "idle" /\ pageToken = "" /\ chatIDs = <<>>
    /\ pages = <<>> /\ sends = <<>> /\ bres = NoResult

Clients == {"c1", "c2", "c3"}

\* the zero value of sync.RWMutex: held by nobody
InitTracker ==
    /\ mu = [w |-> {}, r |-> {}]
    /\ cpc = [c \in Clients |-> "idle"]
    /\ carg = [c \in Clients |-> NoChat]
    /\ cgot = [c \in Clients |-> NoChat]
    /\ completed = NoChat

InitLife == cancelled = FALSE /\ exited = FALSE

Init ==
    /\ InitStore /\ InitWriters /\ InitTrim /\ InitSeq /\ InitRouter
    /\ InitBroadcast /\ InitTracker /\ InitLife

\* SaveMessage, lines 27-37: SELECT id FROM messages WHERE message_id = ?
\* The answer is logged and nothing else is done with it.
SaveMessageCheck(w, msg) ==
    /\ wpc[w] = "idle"
    /\ wpc' = [wpc EXCEPT ![w] = "exec"]
    /\ wmsg' = [wmsg EXCEPT ![w] = msg]
    /\ wexisted' = [wexisted EXCEPT ![w] = ByMessageID(rows, msg.message_id) # {}]
    /\ UNCHANGED <<werr, storeVars, trimVars, seqVars, routerVars, svcVars>>

\* SaveMessage, lines 39-70: the upsert, and the return
SaveMessageExec(w) ==
    /\ wpc[w] = "exec"
    /\ LET res == ExecUpsert(rows, autoinc, wmsg[w]) IN
        /\ res.seq <= MaxId
        /\ rows' = res.rows
        /\ autoinc' = res.seq
        /\ werr' = [werr EXCEPT ![w] = res.err]
        /\ arrived' = IF tpc = "delete"
                      THEN arrived \cup {r.id : r \in ByMessageID(res.rows, wmsg[w].message_id)}
                      ELSE arrived
    /\ wpc' = [wpc EXCEPT ![w] = "done"]
    /\ UNCHANGED <<wmsg, wexisted, tpc, tchat, tkeep, seqVars, routerVars, svcVars>>

\* the caller has read the result of its call
SaveMessageReturn(w) ==
    /\ wpc[w] = "done"
    /\ wpc' = [wpc EXCEPT ![w] = "idle"]
    /\ wmsg' = [wmsg EXCEPT ![w] = NoMessage]
    /\ wexisted' = [wexisted EXCEPT ![w] = FALSE]
    /\ werr' = [werr EXCEPT ![w] = FALSE]
    /\ UNCHANGED <<storeVars, trimVars, seqVars, routerVars, svcVars>>

\* DeleteOldMessages, lines 139-164: the SELECT that fills keepIDs
DeleteOldSelect(chat, keepCount) ==
    /\ tpc = "idle"
    /\ \E keep \in SelectKeepIDs(rows, chat, keepCount) :
        /\ tkeep' = keep
        /\ tchat' = chat
        /\ tpc' = "delete"
        /\ arrived' = {}
    /\ UNCHANGED <<storeVars, writerVars, seqVars, routerVars, svcVars>>

\* DeleteOldMessages, lines 166-194: the DELETE, and the return
DeleteOldDelete ==
    /\ tpc = "delete"
    /\ rows' = ExecDeleteOld(rows, tchat, tkeep)
    /\ tpc' = "idle" /\ tchat' = "" /\ tkeep' = {} /\ arrived' = {}
    /\ UNCHANGED <<autoinc, writerVars, seqVars, routerVars, svcVars>>

\* GetMessagesByChatID called beside the other callers: one SELECT, which
\* writes nothing
GetMessagesConcurrent(chat, limit) ==
    /\ \E textOk \in BOOLEAN :
        GetMessagesByChatID(rows, chat, limit, textOk, MaxTime + 1) # {}
    /\ UNCHANGED vars

Next ==
    \/ \E w \in Writers : \E msg \in ConcMessages(w) : SaveMessageCheck(w, msg)
    \/ \E w \in Writers : SaveMessageExec(w)
    \/ \E w \in Writers : SaveMessageReturn(w)
    \/ \E chat \in Chats, keepCount \in 0..MaxConcKeep : DeleteOldSelect(chat, keepCount)
    \/ DeleteOldDelete
    \/ \E chat \in Chats : GetMessagesConcurrent(chat, MaxConcKeep)

Spec == Init /\ [][Next]_vars

\* ------------------------------------------ the store, one caller at a time
\* Each call runs from its first statement to its return with no other call
\* in between.
\* The messages it saves: any of MsgIds into the first conversation, one of
\* them into the second as well.
SeqMessages ==
    {NewMessage("oc_a", m, "user", "x", "text", t) : m \in MsgIds, t \in Times}
    \cup {NewMessage("oc_b", "om_3", "user", "x", "text", t) : t \in Times}

\* the clock when a listing runs: after every stored created_at
ReadClock == MaxTime + 1

\* SaveMessage(msg), whole
SaveMessageCall(msg) ==
    LET res == SaveMessage(rows, autoinc, msg, FALSE) IN
        /\ res.seq <= MaxSeqId
        /\ rows' = res.rows
        /\ autoinc' = res.seq
        /\ last' = [NoCall EXCEPT !.op = "put", !.msg = msg, !.err = res.err]
        /\ before' = rows

SeqPut(msg) ==
    /\ SaveMessageCall(msg)
    /\ UNCHANGED <<writerVars, trimVars, prev, routerVars, svcVars>>

\* GetMessagesByChatID(chatID, limit), whole
SeqList(chat, limit) ==
    /\ \E textOk \in BOOLEAN :
       \E out \in GetMessagesByChatID(rows, chat, limit, textOk, ReadClock) :
        last' = [NoCall EXCEPT !.op = "list", !.chat = chat, !.n = limit, !.out = out]
    /\ before' = rows
    /\ UNCHANGED <<storeVars, writerVars, trimVars, prev, routerVars, svcVars>>

\* DeleteOldMessages(chatID, keepCount), whole
SeqTrim(chat, keepCount) ==
    /\ rows' \in DeleteOldMessages(rows, chat, keepCount)
    /\ last' = [NoCall EXCEPT !.op = "trim", !.chat = chat, !.n = keepCount]
    /\ before' = rows
    /\ UNCHANGED <<autoinc, writerVars, trimVars, prev, routerVars, svcVars>>

SeqNext ==
    \/ \E msg \in SeqMessages : SeqPut(msg)
    \/ \E chat \in Chats, limit \in -1..MaxKeep : SeqList(chat, limit)
    \/ \E chat \in Chats, keepCount \in 0..MaxKeep : SeqTrim(chat, keepCount)

SeqSpec == Init /\ [][SeqNext]_vars

\* --------------------------------------------- SaveMessage called repeatedly
PutMessages ==
    {NewMessage(c, m, "user", b, "text", t) :
        c \in Chats, m \in ConcMsgIds, b \in Bodies, t \in 1..MaxConcTime}

PutAgain(msg) ==
    /\ SaveMessageCall(msg)
    /\ prev' = [op |-> last.op, msg |-> last.msg, count |-> Cardinality(before)]
    /\ UNCHANGED <<writerVars, trimVars, routerVars, svcVars>>

PutNext == \E msg \in PutMessages : PutAgain(msg)

PutSpec == Init /\ [][PutNext]_vars

\* ====================================================================
\* Properties of the message store
\* ====================================================================
DistinctTimes(S) == \A a, b \in S : a # b => a.created_at # b.created_at

\* C1: in every state reached by interleaved SaveMessage, GetMessagesByChatID
\* and DeleteOldMessages calls, no two rows have the same message_id.
C1_MessageIdUnique ==
    \A r1, r2 \in rows : r1.message_id = r2.message_id => r1 = r2

\* Two rows are stored, a SaveMessage call whose check found its message_id
\* present has run its upsert, and a DeleteOldMessages call is under way.
C1_Witness ==
    /\ Cardinality(rows) = 2
    /\ tpc = "delete"
    /\ \E w \in Writers : wpc[w] = "done" /\ wexisted[w]

\* C2: SaveMessage(m1) then SaveMessage(m2) with the same message_id and
\* different content leave exactly one row with that message_id, holding the
\* content and created_at of m2, and the table has grown by at most one row
\* over the two calls.
C2_LastWriterWins ==
    (/\ prev.op = "put" /\ last.op = "put"
     /\ prev.msg.message_id = last.msg.message_id
     /\ prev.msg.content # last.msg.content)
    => LET hit == ByMessageID(rows, last.msg.message_id) IN
        /\ Cardinality(hit) = 1
        /\ \A r \in hit : r.content = last.msg.content
                          /\ r.created_at = last.msg.created_at
        /\ Cardinality(rows) <= prev.count + 1
        /\ ~last.err

\* The two calls have been made on a table of one other row: the first call
\* inserted, the second updated, and content and created_at both changed.
C2_Witness ==
    /\ prev.op = "put" /\ last.op = "put"
    /\ prev.msg.message_id = last.msg.message_id
    /\ prev.msg.content # last.msg.content
    /\ prev.msg.created_at # last.msg.created_at
    /\ prev.count = 1
    /\ Cardinality(rows) = 2

\* C3: when a SaveMessage call completes while another call with the same
\* message_id is under way or has completed (their checks and upserts
\* interleaved in any order), neither has returned an error and the table
\* holds exactly one row with that message_id, whose content is that of one of
\* the two calls.
C3_ConcurrentPuts ==
    [][\A w, o \in Writers :
        (/\ w # o
         /\ wpc[w] = "exec" /\ wpc'[w] = "done"
         /\ wpc[o] \in {"exec", "done"}
         /\ wmsg[o].message_id = wmsg[w].message_id)
        => LET hit == ByMessageID(rows', wmsg[w].message_id) IN
            /\ ~werr'[w] /\ ~werr'[o]
            /\ Cardinality(hit) = 1
            /\ \A r \in hit : r.content \in {wmsg[w].content, wmsg[o].content}]_vars

\* Both calls have completed, both checks ran before either upsert (neither
\* found the message_id), and one row holds it.
C3_Witness ==
    /\ wpc["w1"] = "done" /\ wpc["w2"] = "done"
    /\ wmsg["w1"].message_id = wmsg["w2"].message_id
    /\ ~wexisted["w1"] /\ ~wexisted["w2"]
    /\ ~werr["w1"] /\ ~werr["w2"]
    /\ Cardinality(ByMessageID(rows, wmsg["w1"].message_id)) = 1
    /\ tpc = "idle"

\* C4: a message saved into the conversation of a DeleteOldMessages call
\* between its SELECT and its DELETE, with a created_at later than that of
\* every kept message, is not deleted by that call. (Stated for the calls that
\* keep at least one message.)
C4_TrimSparesLaterPut ==
    [][(tpc = "delete" /\ tpc' = "idle" /\ \E k \in rows : k.id \in tkeep)
        => \A r \in rows :
            (/\ r.chat_id = tchat
             /\ r.id \in arrived
             /\ \A k \in rows : k.id \in tkeep => r.created_at > k.created_at)
            => r \in rows']_vars

\* C5: with pairwise distinct created_at in the conversation, DeleteOldMessages
\* run alone with keepCount >= 0 leaves exactly the min(keepCount, n) messages of
\* the conversation with the greatest created_at; keepCount = 0 leaves none.
C5_TrimKeepsMostRecent ==
    (last.op = "trim" /\ DistinctTimes(ByChatID(before, last.chat)))
    => LET old == ByChatID(before, last.chat)
           kept == ByChatID(rows, last.chat)
       IN  /\ kept \subseteq old
           /\ Cardinality(kept) = Min(last.n, Cardinality(old))
           /\ \A k \in kept, d \in old \ kept : k.created_at > d.created_at
           /\ last.n = 0 => kept = {}

\* Three messages with distinct created_at, keepCount = 2: one was deleted.
C5_Witness ==
    /\ last.op = "trim" /\ last.n = 2
    /\ Cardinality(ByChatID(before, last.chat)) = 3
    /\ DistinctTimes(ByChatID(before, last.chat))
    /\ Cardinality(ByChatID(rows, last.chat)) = 2

\* C6: among messages of the conversation with equal created_at,
\* DeleteOldMessages keeps the ones with the larger id.
C6_TiesBrokenById ==
    last.op = "trim"
    => \A k \in ByChatID(rows, last.chat), d \in ByChatID(before, last.chat) \ rows :
        k.created_at = d.created_at => k.id > d.id

\* the created_at stored for the row a listed message was scanned from
StoredAt(m) == (CHOOSE r \in rows : r.id = m.id).created_at

EvMessageIds == {"om_1"}
EvChats == {"oc_a", "oc_b"}
EvMessageTypes == {"text", "image"}
EvChatTypes == {"p2p", "group", "topic_group"}
\* contents: a text payload {"text":"hello"}, a payload without the text key
\* {"image_key":"k"}, and text that is no JSON object of strings
EvContents == {"json_text_hello", "json_image_key", "not_json"}

Opt(S) == S \cup {Nil}

Events ==
    [message_id : Opt(EvMessageIds), chat_id : Opt(EvChats),
     message_type : Opt(EvMessageTypes), chat_type : Opt(EvChatTypes),
     content : Opt(EvContents)]

\* how a call on client.Im.Message ends: "ok" (err == nil, resp.Success()),
\* "rejected" (err == nil, a response with an unsuccessful code),
\* "error" (err != nil and no response: resp == nil)
SendOutcomes == {"ok", "rejected", "error"}

FallbackText == "parse message failed, please send text message"

\* json.Unmarshal([]byte(content), &respContent), respContent a map[string]string
Unmarshal(content) ==
    CASE content = "json_text_hello" -> [err |-> FALSE, text |-> "hello"]
      [] content = "json_image_key" -> [err |-> FALSE, text |-> ""]
      [] OTHER -> [err |-> TRUE, text |-> ""]

\* lines 112-122 clearing the slot when the event has no ChatId
TrackRecentChatClearsOnNil(ev, recent) ==
    IF ev.chat_id = Nil
    THEN [fault |-> FALSE, recent |-> NoChat]
    ELSE IF ev.chat_type = Nil
    THEN [fault |-> TRUE, recent |-> recent]
    ELSE [fault |-> FALSE,
          recent |-> [ChatID |-> ev.chat_id,
                      ChatType |-> IF ev.chat_type = "p2p" THEN "p2p" ELSE "group"]]

\* lines 112-122 passing *ChatType on as it is
TrackRecentChatRawType(ev, recent) ==
    IF ev.chat_id = Nil
    THEN [fault |-> FALSE, recent |-> recent]
    ELSE IF ev.chat_type = Nil
    THEN [fault |-> TRUE, recent |-> recent]
    ELSE [fault |-> FALSE,
          recent |-> [ChatID |-> ev.chat_id, ChatType |-> ev.chat_type]]

\* lines 112-122. fault: a nil pointer is dereferenced (*ChatType, line 115).
TrackRecentChat(ev, recent) ==
    IF ev.chat_id = Nil
    THEN [fault |-> FALSE, recent |-> recent]
    ELSE IF ev.chat_type = Nil
    THEN [fault |-> TRUE, recent |-> recent]
    ELSE [fault |-> FALSE,
          recent |-> [ChatID |-> ev.chat_id,
                      ChatType |-> IF ev.chat_type = "p2p" THEN "p2p" ELSE "group"]]

\* lines 124-164: the message is saved when MessageId and ChatId are there;
\* an error of SaveMessage is logged.
PersistMessage(ev, tbl, seq, now, dbFails) ==
    IF ev.message_id # Nil /\ ev.chat_id # Nil
    THEN LET msg == NewMessage(ev.chat_id, ev.message_id, "user",
                               IF ev.content # Nil THEN ev.content ELSE "",
                               IF ev.message_type # Nil THEN ev.message_type ELSE "",
                               now)
             res == SaveMessage(tbl, seq, msg, dbFails)
         IN  IF res.err
             THEN [save |-> "failed", rows |-> tbl, seq |-> seq]
             ELSE [save |-> "saved", rows |-> res.rows, seq |-> res.seq]
    ELSE [save |-> "skipped", rows |-> tbl, seq |-> seq]

\* lines 154-160 returning the error of SaveMessage to the event source
AfterSaveReturnsError(save) == IF save = "failed" THEN "return" ELSE "continue"

\* lines 154-160: the error of SaveMessage is logged and the handler goes on
AfterSave(save) == "continue"

\* lines 172-182 without the test of *MessageType
ReplyTextIgnoresType(ev) ==
    IF ev.content = Nil
    THEN [fault |-> TRUE, text |-> ""]
    ELSE LET parsed == Unmarshal(ev.content) IN
         IF parsed.err
         THEN [fault |-> FALSE, text |-> FallbackText]
         ELSE [fault |-> FALSE, text |-> parsed.text]

\* lines 172-182: the text to answer with. *Content is dereferenced at line
\* 173, *MessageType at line 178 when Unmarshal returned no error.
ReplyText(ev) ==
    IF ev.content = Nil
    THEN [fault |-> TRUE, text |-> ""]
    ELSE LET parsed == Unmarshal(ev.content) IN
         IF parsed.err
         THEN [fault |-> FALSE, text |-> FallbackText]
         ELSE IF ev.message_type = Nil
         THEN [fault |-> TRUE, text |-> ""]
         ELSE IF ev.message_type # "text"
         THEN [fault |-> FALSE, text |-> FallbackText]
         ELSE [fault |-> FALSE, text |-> parsed.text]

\* lines 188-191: the two text lines of the answer
BuildContent(text) ==
    <<[line |-> "zh", text |-> text], [line |-> "en", text |-> text]>>

\* What the handler does with the outcome of its call, lines 207-211 and
\* 225-228: on err != nil || !resp.Success() it prints fields of resp and
\* returns nil; resp is nil when there is no response.
AfterSend(send) == IF send = "error" THEN "panic" ELSE "nil"

\* lines 193-231 always answering through Reply
DispatchAlwaysReply(ev, content, send) ==
    IF ev.chat_type = Nil \/ ev.message_id = Nil
    THEN [calls |-> <<>>, send |-> "none", ret |-> "panic"]
    ELSE [calls |-> <<[op |-> "reply", to |-> ev.message_id, content |-> content]>>,
          send |-> send, ret |-> AfterSend(send)]

\* lines 193-231: Create addressed to the chat for a p2p chat, Reply to the
\* message otherwise. *ChatType is dereferenced at line 193, *ChatId at line
\* 202, *MessageId at line 219.
Dispatch(ev, content, send) ==
    IF ev.chat_type = Nil
    THEN [calls |-> <<>>, send |-> "none", ret |-> "panic"]
    ELSE IF ev.chat_type = "p2p"
    THEN IF ev.chat_id = Nil
         THEN [calls |-> <<>>, send |-> "none", ret |-> "panic"]
         ELSE [calls |-> <<[op |-> "create", to |-> ev.chat_id, content |-> content]>>,
               send |-> send, ret |-> AfterSend(send)]
    ELSE IF ev.message_id = Nil
         THEN [calls |-> <<>>, send |-> "none", ret |-> "panic"]
         ELSE [calls |-> <<[op |-> "reply", to |-> ev.message_id, content |-> content]>>,
               send |-> send, ret |-> AfterSend(send)]

\* The event source calls the handler with an event.
Deliver(ev) ==
    /\ hpc = "idle"
    /\ hpc' = "running"
    /\ hev' = ev
    /\ hsave' = "skipped" /\ calls' = <<>> /\ hsend' = "none" /\ hret' = "none"
    /\ UNCHANGED <<recentChat, clock, storeVars, writerVars, trimVars, seqVars, svcVars>>

\* The handler, lines 85-232, from the event to its return (or to the nil
\* dereference that ends it). now is time.Now(), dbFails whether the store
\* can be reached, send how the call on client.Im.Message ends.
OnP2MessageReceiveV1(now, dbFails, send) ==
    LET tracked == TrackRecentChat(hev, recentChat)
        saved == PersistMessage(hev, rows, autoinc, now, dbFails)
        reply == ReplyText(hev)
        sent == Dispatch(hev, BuildContent(reply.text), send)
    IN  /\ hpc = "running"
        /\ hpc' = "done"
        /\ clock' = now
        /\ recentChat' = tracked.recent
        /\ IF tracked.fault
           THEN /\ UNCHANGED <<rows, autoinc>>
                /\ hsave' = "skipped" /\ calls' = <<>> /\ hsend' = "none"
                /\ hret' = "panic"
           ELSE /\ rows' = saved.rows
                /\ autoinc' = saved.seq
                /\ hsave' = saved.save
                /\ IF AfterSave(saved.save) = "return"
                   THEN calls' = <<>> /\ hsend' = "none" /\ hret' = "error"
                   ELSE IF reply.fault
                   THEN calls' = <<>> /\ hsend' = "none" /\ hret' = "panic"
                   ELSE calls' = sent.calls /\ hsend' = sent.send /\ hret' = sent.ret
        /\ completed' = IF hev.chat_id # Nil /\ ~tracked.fault
                        THEN tracked.recent ELSE completed
        /\ UNCHANGED <<hev, writerVars, trimVars, seqVars, bcastVars, lifeVars,
                       mu, cpc, carg, cgot>>

\* The event source takes the handler's nil. (The handler recovers from no
\* panic: after one, the model delivers no further event.)
Acknowledge ==
    /\ hpc = "done" /\ hret = "nil"
    /\ hpc' = "idle"
    /\ hev' = NoEvent
    /\ hsave' = "skipped" /\ calls' = <<>> /\ hsend' = "none" /\ hret' = "none"
    /\ UNCHANGED <<recentChat, clock, storeVars, writerVars, trimVars, seqVars, svcVars>>

\* The events arrive one at a time; for each, the store is reachable or not
\* and the platform answers the call in one of the three ways.
RouterNext ==
    \/ \E ev \in Events : Deliver(ev)
    \/ \E now \in clock..MaxClock, dbFails \in BOOLEAN, send \in SendOutcomes :
        OnP2MessageReceiveV1(now, dbFails, send)
    \/ Acknowledge

RouterSpec == Init /\ [][RouterNext]_vars

AllPresent(ev) ==
    /\ ev.message_id # Nil /\ ev.chat_id # Nil /\ ev.message_type # Nil
    /\ ev.chat_type # Nil /\ ev.content # Nil

\* C8: whatever fields of the event are absent, the handler returns nil to
\* the event source; it never faults.
C8_AbsentFieldsTolerated ==
    hpc = "done" /\ ~AllPresent(hev) => hret = "nil"

\* C9: when the call on client.Im.Message does not succeed (an error with no
\* response, or a response with an unsuccessful code), the handler returns nil;
\* it never faults.
C9_SendFailureSwallowed ==
    hpc = "done" /\ hsend \in {"rejected", "error"} => hret = "nil"

\* C10: an event with every field present leads to exactly one call: Create
\* addressed to the chat_id when chat_type is "p2p", Reply addressed to the
\* message_id otherwise.
C10_ExactlyOneCall ==
    hpc = "done" /\ AllPresent(hev)
    => /\ Len(calls) = 1
       /\ hev.chat_type = "p2p" => calls[1].op = "create" /\ calls[1].to = hev.chat_id
       /\ hev.chat_type # "p2p" => calls[1].op = "reply" /\ calls[1].to = hev.message_id

\* An event of a chat that is neither p2p nor group, every field present,
\* has been answered with one Reply.
C10_Witness ==
    /\ hpc = "done" /\ hret = "nil" /\ AllPresent(hev)
    /\ hev.chat_type = "topic_group"
    /\ Len(calls) = 1 /\ calls[1].op = "reply"

\* ====================================================================
\* LarkService: SendTextMessage, GetChatList, SendMessageToAllChats
\* ====================================================================
ReceiveIdTypes == {"open_id", "user_id", "union_id", "email", "chat_id"}

\* how a call on the client ends: "ok" (err == nil, resp.Success()),
\* "rejected" (err == nil, an unsuccessful code), "error" (err != nil)
CallOutcomes == {"ok", "rejected", "error"}

\* SendTextMessage, lines 38-74: the request it builds and the error it
\* returns ("" is nil).
SendTextMessage(receiveID, receiveIDType, content, outcome) ==
    [call |-> [receive_id_type |-> IF receiveIDType \in ReceiveIdTypes
                                   THEN receiveIDType ELSE "open_id",
               receive_id |-> receiveID,
               msg_type |-> "text",
               content |-> content],
     outcome |-> outcome,
     err |-> CASE outcome = "error" -> "send failed: err"
               [] outcome = "rejected" -> "send failed: code"
               [] OTHER -> ""]

\* The pages client.Im.Chat.List may answer with: the items' ChatId
\* pointers, HasMore (*bool) and PageToken (*string). A failed call carries
\* no data.
PageItems == {<<>>, <<"oc_a", "oc_b">>, <<Nil, "oc_c">>}
NoData == [outcome |-> "error", items |-> <<>>, has_more |-> Nil, page_token |-> Nil]
Responses ==
    [outcome : {"ok"}, items : PageItems, has_more : Opt({"true", "false"}),
     page_token : Opt({"", "t1"})]
    \cup {NoData, [NoData EXCEPT !.outcome = "rejected"]}

\* lines 124-128: the non-nil ChatIds of a page are appended
AppendChatIDs(ids, items) == ids \o SelectSeq(items, LAMBDA x : x # Nil)

\* line 131 asking only for a page token
HasMorePagesTokenOnly(resp) == resp.page_token # Nil

\* line 131: HasMore != nil && *HasMore && PageToken != nil
HasMorePages(resp) == resp.has_more = "true" /\ resp.page_token # Nil

\* one turn of the loop of GetChatList that returns what was listed so far
\* when the call fails
ListChatTurnKeepsPartial(ids, token, resp) ==
    IF resp.outcome # "ok"
    THEN [to |-> "listed", ids |-> ids, token |-> token, err |-> ""]
    ELSE IF HasMorePages(resp)
    THEN [to |-> "more", ids |-> AppendChatIDs(ids, resp.items),
          token |-> resp.page_token, err |-> ""]
    ELSE [to |-> "listed", ids |-> AppendChatIDs(ids, resp.items),
          token |-> token, err |-> ""]

\* one turn of the loop of GetChatList, lines 105-136: the call failed
\* (return nil, err), there are more pages (next turn), or not (break)
ListChatTurn(ids, token, resp) ==
    IF resp.outcome # "ok"
    THEN [to |-> "failed", ids |-> <<>>, token |-> token, err |-> "list failed"]
    ELSE IF HasMorePages(resp)
    THEN [to |-> "more", ids |-> AppendChatIDs(ids, resp.items),
          token |-> resp.page_token, err |-> ""]
    ELSE [to |-> "listed", ids |-> AppendChatIDs(ids, resp.items),
          token |-> token, err |-> ""]

\* the loop of lines 165-183 leaving at the first failed send
SendLoopStopsAtFailure(ids, content, outcomes) ==
    LET all == [i \in 1..Len(ids) |-> SendTextMessage(ids[i], "chat_id", content, outcomes[i])]
        bad == {i \in 1..Len(ids) : all[i].err # ""}
    IN  IF bad = {} THEN all
        ELSE SubSeq(all, 1, CHOOSE i \in bad : \A j \in bad : i <= j)

\* lines 165-183: one SendTextMessage per chat id, in order
SendLoop(ids, content, outcomes) ==
    [i \in 1..Len(ids) |-> SendTextMessage(ids[i], "chat_id", content, outcomes[i])]

\* lines 169-173 marking every chat a success
ResultEntryAlwaysSuccess(chatID, err) == [chat_id |-> chatID, status |-> "success"]

\* lines 167-182: the entry of results for one chat
ResultEntry(chatID, err) ==
    IF err # ""
    THEN [chat_id |-> chatID, status |-> "failed", error |-> err]
    ELSE [chat_id |-> chatID, status |-> "success"]

\* lines 150-190: what SendMessageToAllChats returns once the chats are listed
Summary(ids, done) ==
    IF Len(ids) = 0
    THEN [err |-> "", total |-> 0, success |-> 0, failed |-> 0, results |-> <<>>]
    ELSE [err |-> "",
          total |-> Len(ids),
          success |-> Cardinality({i \in 1..Len(done) : done[i].err = ""}),
          failed |-> Cardinality({i \in 1..Len(done) : done[i].err # ""}),
          results |-> [i \in 1..Len(done) |->
                          ResultEntry(done[i].call.receive_id, done[i].err)]]

\* MessageHandler.SendMessage sends this text
BroadcastText == "helloworld"

\* MessageHandler.SendMessage calls SendMessageToAllChats, which enters
\* GetChatList (lines 101-103).
BroadcastCall ==
    /\ bpc \in {"idle", "done"}
    /\ bpc' = "listing"
    /\ pageToken' = "" /\ chatIDs' = <<>> /\ pages' = <<>>
    /\ sends' = <<>> /\ bres' = NoResult
    /\ UNCHANGED <<storeVars, writerVars, trimVars, seqVars, routerVars, lockVars, lifeVars>>

\* GetChatList, one turn of its loop with the page the platform answers; on
\* a failure SendMessageToAllChats returns the error (lines 146-148).
ListChatPage(resp) ==
    LET turn == ListChatTurn(chatIDs, pageToken, resp) IN
    /\ bpc = "listing"
    /\ pages' = Append(pages, [req |-> IF pageToken # "" THEN pageToken ELSE Nil,
                               resp |-> resp])
    /\ chatIDs' = turn.ids
    /\ pageToken' = turn.token
    /\ bpc' = CASE turn.to = "failed" -> "done"
                [] turn.to = "more" -> "listing"
                [] OTHER -> "sending"
    /\ bres' = IF turn.to = "failed" THEN [NoResult EXCEPT !.err = turn.err] ELSE bres
    /\ UNCHANGED <<sends, storeVars, writerVars, trimVars, seqVars, routerVars, lockVars, lifeVars>>

\* SendMessageToAllChats from line 150 to its return; outcomes[i] is how the
\* i-th send ends.
SendToAllChats(outcomes) ==
    LET done == IF Len(chatIDs) = 0 THEN <<>>
                ELSE SendLoop(chatIDs, BroadcastText, outcomes) IN
    /\ bpc = "sending"
    /\ bpc' = "done"
    /\ sends' = done
    /\ bres' = Summary(chatIDs, done)
    /\ UNCHANGED <<pageToken, chatIDs, pages, storeVars, writerVars, trimVars,
                   seqVars, routerVars, lockVars, lifeVars>>

\* The platform reports further pages on fewer than MaxPages pages of a
\* listing.
BroadcastNext ==
    \/ BroadcastCall
    \/ \E resp \in Responses :
        /\ resp.has_more = "true" => Len(pages) + 1 < MaxPages
        /\ ListChatPage(resp)
    \/ \E outcomes \in [1..Len(chatIDs) -> CallOutcomes] : SendToAllChats(outcomes)

BroadcastSpec == Init /\ [][BroadcastNext]_vars

\* the loop of GetChatList keeps running: a page that is asked for is answered
BroadcastLiveSpec ==
    BroadcastSpec /\ WF_vars(\E resp \in Responses :
                                /\ resp.has_more = "true" => Len(pages) + 1 < MaxPages
                                /\ ListChatPage(resp))

ListingFailed == \E i \in 1..Len(pages) : pages[i].resp.outcome # "ok"

\* C11: SendMessageToAllChats makes exactly one send per chat id GetChatList
\* returned, in that order, each addressed to that chat id as a chat_id,
\* however the sends before it ended.
C11_OneSendPerChat ==
    bpc = "done" /\ bres.err = ""
    => /\ Len(sends) = Len(chatIDs)
       /\ \A i \in 1..Len(sends) :
            /\ sends[i].call.receive_id = chatIDs[i]
            /\ sends[i].call.receive_id_type = "chat_id"
            /\ sends[i].call.content = BroadcastText

\* Three chats were listed; the first send ended with an error, the second
\* was rejected, and the third was made and went through.
C11_Witness ==
    /\ bpc = "done" /\ Len(chatIDs) = 3 /\ Len(sends) = 3
    /\ sends[1].outcome = "error" /\ sends[2].outcome = "rejected"
    /\ sends[3].outcome = "ok"

\* C12: when every page was fetched, SendMessageToAllChats returns no error
\* and a summary: total is the number of chat ids listed, success + failed =
\* total, results has one entry per chat id in order, "success" or "failed"
\* as that send ended, a failed one with the error text; with no chat id
\* listed everything is 0 and empty and no send was made.
C12_SummaryMatchesOutcomes ==
    bpc = "done" /\ ~ListingFailed
    => /\ bres.err = ""
       /\ bres.total = Len(chatIDs)
       /\ bres.success + bres.failed = bres.total
       /\ Len(bres.results) = Len(chatIDs)
       /\ Len(sends) = Len(chatIDs)
       /\ \A i \in 1..Len(chatIDs) :
            /\ bres.results[i].chat_id = chatIDs[i]
            /\ sends[i].outcome = "ok"
               => bres.results[i] = [chat_id |-> chatIDs[i], status |-> "success"]
            /\ sends[i].outcome # "ok"
               => /\ bres.results[i].status = "failed"
                  /\ bres.results[i].error = sends[i].err
                  /\ bres.results[i].error # ""
       /\ bres.success = Cardinality({i \in 1..Len(sends) : sends[i].outcome = "ok"})
       /\ chatIDs = <<>>
          => bres = [NoResult EXCEPT !.err = ""] /\ sends = <<>>

\* Three chats, the send to the second failed: total 3, success 2, failed 1.
C12_Witness ==
    /\ bpc = "done" /\ Len(chatIDs) = 3
    /\ bres.total = 3 /\ bres.success = 2 /\ bres.failed = 1
    /\ bres.results[2].status = "failed"

\* C13: when a call of client.Im.Chat.List fails, on the first page or after
\* pages that were fetched, GetChatList returns an error and no chat id, and
\* SendMessageToAllChats returns an error and has made no send.
C13_ListFailureAborts ==
    bpc # "listing" /\ ListingFailed
    => /\ bpc = "done"
       /\ chatIDs = <<>>
       /\ bres.err # ""
       /\ sends = <<>>

\* The first page listed two chats and reported more; the second call failed.
C13_Witness ==
    /\ bpc = "done" /\ Len(pages) = 2
    /\ pages[1].resp.items = <<"oc_a", "oc_b">>
    /\ pages[2].resp.outcome = "rejected"

RECURSIVE IdsOfPages(_)
IdsOfPages(ps) ==
    IF ps = <<>> THEN <<>>
    ELSE IdsOfPages(SubSeq(ps, 1, Len(ps) - 1))
         \o SelectSeq(ps[Len(ps)].resp.items, LAMBDA x : x # Nil)

C14_NoFetchAfterLastPage ==
    /\ \A i \in 1..(Len(pages) - 1) :
         pages[i].resp.outcome = "ok" /\ pages[i].resp.has_more = "true"
    /\ bpc = "listing" /\ pages # <<>>
       => pages[Len(pages)].resp.has_more = "true"
    /\ bpc \in {"sending", "done"} /\ ~ListingFailed
       => chatIDs = IdsOfPages(pages)

\* C14: GetChatList makes no call after a response that reports no further
\* page (HasMore nil or false) and returns the chat ids of the pages it
\* fetched, in page order; when the platform reports further pages on
\* finitely many pages, with whatever page token, GetChatList returns.
C14_ListingTerminates ==
    /\ []C14_NoFetchAfterLastPage
    /\ (bpc = "listing") ~> (bpc # "listing")

\* Two pages were fetched, the first reporting more with an empty page token,
\* and the chat ids of both were returned.
C14_Witness ==
    /\ bpc = "sending" /\ Len(pages) = 2
    /\ pages[1].resp.page_token = "" /\ pages[1].resp.items = <<"oc_a", "oc_b">>
    /\ pages[2].resp.items = <<Nil, "oc_c">>
    /\ chatIDs = <<"oc_a", "oc_b", "oc_c">>

\* ====================================================================
\* main: cancellation and exit
\* ====================================================================
\* main, lines 58-62: the signal arrives and cancel() is called.
Cancel ==
    /\ ~cancelled /\ ~exited
    /\ cancelled' = TRUE
    /\ UNCHANGED <<exited, storeVars, writerVars, trimVars, seqVars, routerVars,
                   bcastVars, lockVars>>

\* startHTTPServer returns (ctx.Done() and Shutdown, or serverDone, lines
\* 283-296) and main returns (lines 68-71, the deferred cancel runs): the
\* process and its goroutines are gone.
Exit ==
    /\ ~exited
    /\ exited' = TRUE
    /\ cancelled' = TRUE
    /\ UNCHANGED <<storeVars, writerVars, trimVars, seqVars, routerVars,
                   bcastVars, lockVars>>

\* the events of the running service: text messages with every field present
TextEvents ==
    {ev \in Events : AllPresent(ev) /\ ev.content = "json_text_hello"
                     /\ ev.message_type = "text"}

\* startWebSocketConnection, lines 238-247: cli.Start is given
\* context.Background(), not the ctx of main, so the client calls the handler
\* for as long as the process lives.
LifecycleNext ==
    \/ Cancel
    \/ Exit
    \/ ~exited /\ \E ev \in TextEvents : Deliver(ev)
    \/ ~exited /\ \E now \in clock..MaxClock, send \in SendOutcomes :
                    OnP2MessageReceiveV1(now, FALSE, send)
    \/ ~exited /\ Acknowledge

LifecycleSpec == Init /\ [][LifecycleNext]_vars

\* C15: once cancel() has been called, the handler is called with no further
\* event (a handler that is running may finish).
C15_NoEventAfterCancel ==
    [][cancelled => ~(hpc # "running" /\ hpc' = "running")]_vars

\* ====================================================================
\* LarkService: UpdateRecentChat and GetRecentChat, concurrent callers
\* ====================================================================
TrackedChats == {"oc_a", "oc_b"}
TrackedTypes == {"group", "p2p"}

\* s.mu.Lock() going ahead while the mutex is held for reading
CanLockAmongReaders(m) == m.w = {}

\* s.mu.Lock(), line 83: goes ahead when nobody holds the mutex
CanLock(m) == m.w = {} /\ m.r = {}

\* s.mu.RLock(), line 94: goes ahead when nobody holds it for writing
CanRLock(m) == m.w = {}

\* lines 85-88 storing "group" for every chat
NewRecentChatAlwaysGroup(chatID, chatType) == [ChatID |-> chatID, ChatType |-> "group"]

\* lines 85-88: &RecentChat{ChatID: chatID, ChatType: chatType}
NewRecentChat(chatID, chatType) == [ChatID |-> chatID, ChatType |-> chatType]

\* UpdateRecentChat, line 83
UpdateLock(c, chatID, chatType) ==
    /\ cpc[c] = "idle"
    /\ CanLock(mu)
    /\ mu' = [mu EXCEPT !.w = {c}]
    /\ cpc' = [cpc EXCEPT ![c] = "update_locked"]
    /\ carg' = [carg EXCEPT ![c] = [ChatID |-> chatID, ChatType |-> chatType]]
    /\ UNCHANGED <<recentChat, cgot, completed, storeVars, writerVars, trimVars,
                   seqVars, handlerVars, bcastVars, lifeVars>>

\* UpdateRecentChat, lines 85-89
UpdateStore(c) ==
    /\ cpc[c] = "update_locked"
    /\ recentChat' = NewRecentChat(carg[c].ChatID, carg[c].ChatType)
    /\ cpc' = [cpc EXCEPT ![c] = "update_stored"]
    /\ UNCHANGED <<mu, carg, cgot, completed, storeVars, writerVars, trimVars,
                   seqVars, handlerVars, bcastVars, lifeVars>>

\* UpdateRecentChat, the deferred Unlock of line 84, and the return
UpdateUnlock(c) ==
    /\ cpc[c] = "update_stored"
    /\ mu' = [mu EXCEPT !.w = mu.w \ {c}]
    /\ cpc' = [cpc EXCEPT ![c] = "idle"]
    /\ completed' = carg[c]
    /\ UNCHANGED <<recentChat, carg, cgot, storeVars, writerVars, trimVars,
                   seqVars, handlerVars, bcastVars, lifeVars>>

\* GetRecentChat, line 94
GetRLock(c) ==
    /\ cpc[c] = "idle"
    /\ CanRLock(mu)
    /\ mu' = [mu EXCEPT !.r = mu.r \cup {c}]
    /\ cpc' = [cpc EXCEPT ![c] = "get_locked"]
    /\ UNCHANGED <<recentChat, carg, cgot, completed, storeVars, writerVars,
                   trimVars, seqVars, handlerVars, bcastVars, lifeVars>>

\* GetRecentChat, line 96: s.recentChat is read
GetLoad(c) ==
    /\ cpc[c] = "get_locked"
    /\ cgot' = [cgot EXCEPT ![c] = recentChat]
    /\ cpc' = [cpc EXCEPT ![c] = "get_loaded"]
    /\ UNCHANGED <<recentChat, mu, carg, completed, storeVars, writerVars,
                   trimVars, seqVars, handlerVars, bcastVars, lifeVars>>

\* GetRecentChat, the deferred RUnlock of line 95, and the return
GetRUnlock(c) ==
    /\ cpc[c] = "get_loaded"
    /\ mu' = [mu EXCEPT !.r = mu.r \ {c}]
    /\ cpc' = [cpc EXCEPT ![c] = "idle"]
    /\ UNCHANGED <<recentChat, carg, cgot, completed, storeVars, writerVars,
                   trimVars, seqVars, handlerVars, bcastVars, lifeVars>>

TrackerNext ==
    \E c \in Clients :
        \/ \E chatID \in TrackedChats, chatType \in TrackedTypes :
            UpdateLock(c, chatID, chatType)
        \/ UpdateStore(c)
        \/ UpdateUnlock(c)
        \/ GetRLock(c)
        \/ GetLoad(c)
        \/ GetRUnlock(c)

TrackerSpec == Init /\ [][TrackerNext]_vars

InUpdate(c) == cpc[c] \in {"update_locked", "update_stored"}
InGet(c) == cpc[c] \in {"get_locked", "get_loaded"}

\* C16: what GetRecentChat reads is the chat id and chat type of the
\* UpdateRecentChat call that returned last, and nothing of an earlier one.
C16_LastUpdateWins ==
    \A c \in Clients : cpc[c] = "get_loaded" => cgot[c] = completed

\* UpdateRecentChat(oc_a, group) has returned, UpdateRecentChat(oc_b, p2p)
\* has returned after it, and GetRecentChat has read oc_b / p2p.
C16_Witness ==
    \E a, b, c \in Clients :
        /\ a # b
        /\ cpc[a] = "idle" /\ carg[a] = [ChatID |-> "oc_a", ChatType |-> "group"]
        /\ cpc[b] = "idle" /\ carg[b] = [ChatID |-> "oc_b", ChatType |-> "p2p"]
        /\ completed = carg[b]
        /\ cpc[c] = "get_loaded" /\ cgot[c] = [ChatID |-> "oc_b", ChatType |-> "p2p"]

\* C18: an UpdateRecentChat call between its Lock and Unlock is never
\* together with another UpdateRecentChat call between Lock and Unlock, nor
\* with a GetRecentChat call between RLock and RUnlock.
C18_WritersExclusive ==
    \A c, d \in Clients :
        c # d /\ InUpdate(c) => ~InUpdate(d) /\ ~InGet(d)

\* Two GetRecentChat calls are between RLock and RUnlock at once.
C18_Witness ==
    \E c, d \in Clients : c # d /\ InGet(c) /\ InGet(d)

\* ====================================================================
\* The service as a whole: events, broadcasts and store calls
\* ====================================================================
\* GetRecentChat, lines 93-97, called in the present state
GetRecentChat == recentChat

\* events with and without chat id, chat type and content
ServiceEvents ==
    {ev \in Events : /\ ev.message_id = "om_1" /\ ev.message_type = "text"
                     /\ ev.chat_type \in {Nil, "p2p", "group"}
                     /\ ev.content \in {Nil, "json_text_hello"}}

ServiceResponses ==
    {NoData, [outcome |-> "ok", items |-> <<"oc_a">>, has_more |-> "false",
              page_token |-> Nil]}

ServiceNext ==
    \/ \E ev \in ServiceEvents : Deliver(ev)
    \/ \E dbFails \in BOOLEAN, send \in SendOutcomes :
        OnP2MessageReceiveV1(clock, dbFails, send)
    \/ Acknowledge
    \/ BroadcastCall
    \/ \E resp \in ServiceResponses : ListChatPage(resp)
    \/ \E outcomes \in [1..Len(chatIDs) -> CallOutcomes] : SendToAllChats(outcomes)
    \/ autoinc < MaxSeqId /\ \E chat \in Chats : SeqTrim(chat, 0)

ServiceSpec == Init /\ [][ServiceNext]_vars

\* C17: GetRecentChat returns nil as long as no UpdateRecentChat call has
\* returned, and never nil after one has: no event that fails, no
\* SendMessageToAllChats call and no store call clears recentChat.
C17_AbsentUntilFirstUpdate ==
    /\ [](GetRecentChat = NoChat <=> completed = NoChat)
    /\ [][GetRecentChat # NoChat => GetRecentChat' # NoChat]_vars

\* After an update, an event was handled that faulted, a
\* SendMessageToAllChats call has returned, and the slot is still set.
C17_Witness ==
    /\ completed # NoChat /\ GetRecentChat # NoChat
    /\ hpc = "done" /\ hret = "panic"
    /\ bpc = "done"

\* ====================================================================
\* The event handler: saving and answering
\* ====================================================================
\* the answer to the event can be put together: lines 172-182 dereference
\* no nil pointer
CanReply(ev) == ~ReplyText(ev).fault

C20_SaveIffIdsPresent ==
    hpc = "done"
    => /\ hsave \in {"saved", "failed"} <=> (hev.message_id # Nil /\ hev.chat_id # Nil)
       /\ hev.chat_id # Nil => recentChat.ChatID = hev.chat_id /\ completed = recentChat
       /\ (hev.message_id = Nil \/ hev.chat_id = Nil) => Len(calls) = 1

\* ====================================================================
\* Outbound messages and the store
\* ====================================================================
\* C21: after a call on client.Im.Message that succeeded, made by the event
\* handler or by SendMessageToAllChats, table messages holds a row for the
\* message sent (the rows of inbound events have sender_type "user").
C21_SentMessagesAreStored ==
    /\ hpc = "done" /\ hsend = "ok" => \E r \in rows : r.sender_type # "user"
    /\ bpc = "done"
       => \A i \in 1..Len(sends) :
            sends[i].outcome = "ok"
            => \E r \in rows : /\ r.sender_type # "user"
                               /\ r.chat_id = sends[i].call.receive_id

\* ====================================================================
\* SaveMessage: what the upsert leaves alone
\* ====================================================================
\* messages of two kinds: a user's text in one conversation, a bot's image
\* in the other
UpsertMessages ==
    {NewMessage("oc_a", m, "user", b, "text", t) :
        m \in ConcMsgIds, b \in Bodies, t \in 1..MaxConcTime}
    \cup {[NewMessage("oc_b", m, "bot", b, "image", t) EXCEPT !.sender_id = "ou_1"] :
            m \in ConcMsgIds, b \in Bodies, t \in 1..MaxConcTime}

UpsertNext ==
    \/ \E msg \in UpsertMessages : SeqPut(msg)
    \/ \E chat \in Chats : SeqTrim(chat, 0)

UpsertSpec == Init /\ [][UpsertNext]_vars

\* C22: SaveMessage(m) on a table that has a row with m.message_id changes
\* the content and created_at of that row and nothing else: its id, chat_id,
\* sender_id, sender_type and message_type stay, and so does every other row;
\* on a table without such a row it adds one row, m, with an id no row has.
C22_UpsertFrame ==
    last.op = "put"
    => LET m == last.msg
           old == ByMessageID(before, m.message_id)
       IN  /\ ~last.err
           /\ old # {}
              => \E r \in old :
                    rows = (before \ {r})
                           \cup {[r EXCEPT !.content = m.content,
                                           !.created_at = m.created_at]}
           /\ old = {}
              => \E n \in rows \ before :
                    /\ rows = before \cup {n}
                    /\ n = [m EXCEPT !.id = n.id]
                    /\ \A r \in before : r.id # n.id

\* A row was hit by a message of another conversation, sender and type,
\* with another content, while a second row was stored.
C22_Witness ==
    /\ last.op = "put" /\ Cardinality(before) = 2
    /\ \E r \in ByMessageID(before, last.msg.message_id) :
        /\ r.chat_id # last.msg.chat_id /\ r.sender_type # last.msg.sender_type
        /\ r.message_type # last.msg.message_type /\ r.content # last.msg.content
        /\ r.created_at # last.msg.created_at

\* ====================================================================
\* The event handler: the text of the answer
\* ====================================================================
\* the text the answer is to carry
ExpectedText(ev) ==
    IF ev.message_type = "text" /\ ev.content = "json_text_hello" THEN "hello"
    ELSE IF ev.message_type = "text" /\ ev.content = "json_image_key" THEN ""
    ELSE FallbackText

C24_TrimAndListFrame ==
    /\ last.op = "trim"
       => /\ rows \subseteq before
          /\ \A r \in before : r.chat_id # last.chat => r \in rows
    /\ last.op = "list" => rows = before

\* A conversation was emptied with keepCount = 0 while the other
\* conversation had a message, which is still there.
C24_Witness ==
    /\ last.op = "trim" /\ last.n = 0
    /\ ByChatID(before, last.chat) # {}
    /\ ByChatID(rows, last.chat) = {}
    /\ rows # {}

\* ====================================================================
\* LarkService: what a reader of recentChat sees
\* ====================================================================
\* the two UpdateRecentChat calls that are made
PassedPairs ==
    {[ChatID |-> "oc_a", ChatType |-> "group"], [ChatID |-> "oc_b", ChatType |-> "p2p"]}

PairNext ==
    \E c \in Clients :
        \/ \E p \in PassedPairs : UpdateLock(c, p.ChatID, p.ChatType)
        \/ UpdateStore(c)
        \/ UpdateUnlock(c)
        \/ GetRLock(c)
        \/ GetLoad(c)
        \/ GetRUnlock(c)

PairSpec == Init /\ [][PairNext]_vars

\* C25: what GetRecentChat returns is nil or the chat id and chat type that
\* one UpdateRecentChat call was given together.
C25_NoTornSnapshot ==
    \A c \in Clients : cgot[c] # NoChat => cgot[c] \in PassedPairs

\* Both updates have been made, one is storing, and a reader has read the
\* pair of the other.
C25_Witness ==
    \E a, b, c \in Clients :
        /\ carg[a] = [ChatID |-> "oc_a", ChatType |-> "group"] /\ cpc[a] = "idle"
        /\ completed = carg[a]
        /\ carg[b] = [ChatID |-> "oc_b", ChatType |-> "p2p"] /\ cpc[b] = "update_stored"
        /\ cgot[c] = carg[a]

\* ====================================================================
\* The event handler: the chat type that is tracked
\* ====================================================================
\* C26: after an event with ChatId and ChatType has been handled,
\* recentChat holds its chat id with chat type "p2p" when the event's chat
\* type is "p2p" and "group" for any other; the tracked type is never
\* anything else, and it is "p2p" exactly when the answer went out by Create.
C26_TrackedTypeNormalised ==
    /\ recentChat # NoChat => recentChat.ChatType \in {"p2p", "group"}
    /\ hpc = "done" /\ hev.chat_id # Nil /\ hev.chat_type # Nil
       => /\ recentChat.ChatID = hev.chat_id
          /\ recentChat.ChatType = IF hev.chat_type = "p2p" THEN "p2p" ELSE "group"
          /\ Len(calls) = 1
             => (calls[1].op = "create" <=> recentChat.ChatType = "p2p")

\* A topic_group event was tracked as "group" and answered by Reply.
C26_Witness ==
    /\ hpc = "done" /\ hev.chat_type = "topic_group"
    /\ recentChat = [ChatID |-> hev.chat_id, ChatType |-> "group"]
    /\ Len(calls) = 1 /\ calls[1].op = "reply"

====
